---------------------------- MODULE Spec2Model ----------------------------
(***************************************************************************)
(* Model of src/p.py: a command-line front end that locates ffmpeg,        *)
(* validates the input and output paths, builds a drawbox/drawtext filter  *)
(* command, runs it as a child process and maps the result to an exit      *)
(* status.                                                                 *)
(*                                                                         *)
(* The program is one thread of control.  pc is its position; every action *)
(* is one system call or one block of straight-line code between two       *)
(* system calls.  The filesystem, the tool on the search path, the child   *)
(* process and the user's interrupt key are the environment: their         *)
(* outcomes are drawn with \E at the step that observes them, and the      *)
(* files can be changed by other processes between two steps.              *)
(***************************************************************************)
EXTENDS Integers, Sequences, FiniteSets, TLC

\* ------------------------------------------------------------------ bounds

\* Longest display text of the escaping specification.
MaxTextLen == 3

\* Most lines the child process emits before it closes its output.
MaxLines == 32

\* ------------------------------------------------------- program constants

\* all_output[-30:]
TailLines == 30

\* argparse's status for a malformed command line (parser.error -> exit 2)
ParserErrorCode == 2

\* ------------------------------------------------------------ value spaces

\* Characters of a display text: quote, colon, backslash, any other one.
Chars == {"'", ":", "\\", "a"}

RECURSIVE SeqsUpTo(_, _)
SeqsUpTo(S, n) ==
    IF n = 0 THEN {<<>>}
    ELSE LET shorter == SeqsUpTo(S, n - 1)
         IN  shorter \cup {Append(s, c) : s \in {t \in shorter : Len(t) = n - 1}, c \in S}

Texts == SeqsUpTo(Chars, MaxTextLen)

\* Display texts of the whole-program specification.
SampleTexts == {<<"a">>, <<"'", ":">>}

\* What the path of the input can be on disk.
InStates == {"missing", "noaccess", "dir", "empty", "nonempty"}

\* The directory of the destination, and the destination in it.
ParentStates == {"missing", "noaccess", "readonly", "writable"}
OutStates == {"missing", "empty", "nonempty"}

\* A destination can only be there if its directory is.
FsOk(parent, out) == parent = "missing" => out = "missing"

Platforms == {"win32", "other"}

\* Exceptions the system calls of the program raise.
Exceptions == {"FileNotFoundError", "PermissionError", "TimeoutExpired",
               "UnicodeDecodeError", "KeyboardInterrupt"}

\* KeyboardInterrupt derives from BaseException, the others from Exception.
IsException(e) == e \in Exceptions \ {"KeyboardInterrupt"}

NoExc == [from |-> "none", kind |-> "none"]

\* The k-th line the child writes: its number, whether blanks precede its
\* newline, whether it holds "time=" or "frame=".
ChildLine(k) == [id |-> k, trail |-> (k % 2 = 0), progress |-> (k % 3 = 0)]

VARIABLES
    pc,            \* position of the program
    args,          \* "unparsed", or how parse_args ended: "ok", "error", "help"
    exitCode,      \* -1 while running, then the status given to sys.exit
    platform,      \* sys.platform
    inF,           \* the input path on disk
    outParent,     \* the destination's directory on disk
    outF,          \* the destination on disk
    text,          \* args.text
    probe1,        \* how find_ffmpeg's probe of the bare name ended
    fbSeen,        \* which fallback locations find_ffmpeg saw on disk
    found,         \* find_ffmpeg's return value
    ffmpeg_path,   \* check_ffmpeg's return value
    inRet,         \* validate_input_file's return value
    outRet,        \* validate_output_path's return value
    escaped_text,  \* process_video's escaped_text
    command,       \* process_video's command
    all_output,    \* process_video's all_output
    last_progress, \* process_video's last_progress (a line id, 0 for "")
    returncode,    \* process.returncode, -1 before wait() returns
    error_lines,   \* the lines printed under "FFMPEG ERROR OUTPUT"
    success,       \* process_video's return value
    exc,           \* the exception that left a function, and the function
    printed,       \* the diagnostics printed so far
    launched,      \* the child processes started so far
    childWrote,    \* whether the transcoding child wrote the destination
    destChecked    \* whether process_video looked at the destination

vars == <<pc, args, exitCode, platform, inF, outParent, outF, text, probe1,
          fbSeen, found, ffmpeg_path, inRet, outRet, escaped_text, command,
          all_output, last_progress, returncode, error_lines, success, exc,
          printed, launched, childWrote, destChecked>>

fsVars == <<inF, outParent, outF>>
locateVars == <<probe1, fbSeen, found, ffmpeg_path>>
runVars == <<escaped_text, command, all_output, last_progress, returncode,
             error_lines, childWrote, destChecked>>

NoFallback == [winget |-> FALSE, pf1 |-> FALSE, pf2 |-> FALSE]

\* The state main() starts in: nothing parsed, nothing run; the command
\* line's text, the platform and the files are whatever they are.
InitWith(T) ==
    /\ pc = "parse"
    /\ args = "unparsed"
    /\ exitCode = -1
    /\ platform \in Platforms
    /\ inF \in InStates
    /\ outParent \in ParentStates
    /\ outF \in OutStates
    /\ FsOk(outParent, outF)
    /\ text \in T
    /\ probe1 = "none"
    /\ fbSeen = NoFallback
    /\ found = "unset"
    /\ ffmpeg_path = "unset"
    /\ inRet = "unset"
    /\ outRet = "unset"
    /\ escaped_text = <<>>
    /\ command = <<>>
    /\ all_output = <<>>
    /\ last_progress = 0
    /\ returncode = -1
    /\ error_lines = <<>>
    /\ success = "unset"
    /\ exc = NoExc
    /\ printed = {}
    /\ launched = {}
    /\ childWrote = FALSE
    /\ destChecked = FALSE

Init == InitWith(SampleTexts)

\* ------------------------------------------------------ exception handlers

\* find_ffmpeg: except (FileNotFoundError, subprocess.TimeoutExpired)
FindCatches(e) == e \in {"FileNotFoundError", "TimeoutExpired"}

\* check_ffmpeg: except subprocess.TimeoutExpired / except Exception
CheckCatches(e) == e = "TimeoutExpired" \/ IsException(e)

\* process_video: except subprocess.TimeoutExpired / except Exception
ProcessCatches(e) == e = "TimeoutExpired" \/ IsException(e)

\* Mutant of MainCatches: main without its "except Exception" clause.
MainCatchesInterruptOnly(e) == e = "KeyboardInterrupt"

\* main: except KeyboardInterrupt / except Exception
MainCatches(e) == e = "KeyboardInterrupt" \/ IsException(e)

\* The function whose code the program is in.
FuncOf(p) ==
    CASE p \in {"ff_probe", "ff_fallback"} -> "find_ffmpeg"
      [] p \in {"cf_check", "cf_probe"} -> "check_ffmpeg"
      [] p \in {"vi_exists", "vi_isfile", "vi_stat", "vi_stat2"} -> "validate_input_file"
      [] p \in {"vo_parent", "vo_access", "vo_exists"} -> "validate_output_path"
      [] p \in {"pv_build", "pv_popen", "pv_read", "pv_wait", "pv_rc",
                "pv_exists", "pv_getsize"} -> "process_video"
      [] OTHER -> "main"

\* Exception e leaves function f and every caller up to main's try block,
\* none of which handles it: main's handlers print and exit 1, and what
\* they do not handle ends the interpreter with a traceback.
EscapeToMain(f, e) ==
    /\ exc' = [from |-> f, kind |-> e]
    /\ IF MainCatches(e)
       THEN /\ pc' = "exited"
            /\ exitCode' = 1
            /\ printed' = printed \cup
                 {IF e = "KeyboardInterrupt" THEN "interrupted" ELSE "unexpected"}
       ELSE /\ pc' = "crashed"
            /\ exitCode' = 1
            /\ printed' = printed \cup {"traceback"}

\* process_video returns False to main.
ReturnFalse(diag) ==
    /\ success' = "False"
    /\ printed' = printed \cup diag
    /\ pc' = "main_report"

\* ------------------------------------------------------------------- main

\* sys.exit(e.code) of the SystemExit argparse raised.
ParserExit(r) == IF r = "error" THEN ParserErrorCode ELSE 0

\* main, lines 260-300: the banner, the parser, parse_args() and the handler
\* of its SystemExit.  A well-formed command line enters process_video, whose
\* first statement calls check_ffmpeg, whose first statement calls
\* find_ffmpeg.
ParseArgs ==
    /\ pc = "parse"
    /\ \E r \in {"ok", "error", "help"} :
         /\ args' = r
         /\ IF r = "ok"
            THEN /\ pc' = "ff_probe"
                 /\ printed' = printed \cup {"started"}
                 /\ UNCHANGED exitCode
            ELSE /\ pc' = "exited"
                 /\ printed' = printed \cup (IF ParserExit(r) # 0 THEN {"tip"} ELSE {})
                 /\ exitCode' = ParserExit(r)
    /\ UNCHANGED <<platform, text, inRet, outRet, success, exc, launched>>
    /\ UNCHANGED <<fsVars, locateVars, runVars>>

\* main, lines 311-316: the report of process_video's result.
MainReport ==
    /\ pc = "main_report"
    /\ pc' = "exited"
    /\ IF success = "True"
       THEN /\ printed' = printed \cup {"success"}
            /\ exitCode' = 0
       ELSE /\ printed' = printed \cup {"failed"}
            /\ exitCode' = 1
    /\ UNCHANGED <<args, platform, text, inRet, outRet, success, exc, launched>>
    /\ UNCHANGED <<fsVars, locateVars, runVars>>

\* ------------------------------------------------------------ find_ffmpeg

\* How subprocess.run([tool, '-version'], timeout=5) can end: the tool ran
\* and exited with status 0 or another one, or run() raised.
ProbeOutcomes == {"exit0", "exit_nonzero", "FileNotFoundError",
                  "TimeoutExpired", "PermissionError"}

\* run() returned a CompletedProcess; its returncode is not looked at.
ProbeReturned(r) == r \in {"exit0", "exit_nonzero"}

\* run() started a child process (a timeout kills one that was started).
ProbeStarted(r) == r \in {"exit0", "exit_nonzero", "TimeoutExpired"}

\* find_ffmpeg, lines 17-27.
FindProbe ==
    /\ pc = "ff_probe"
    /\ \E r \in ProbeOutcomes :
         /\ probe1' = r
         /\ launched' = launched \cup (IF ProbeStarted(r) THEN {"find_probe"} ELSE {})
         /\ IF ProbeReturned(r)
            THEN /\ found' = "ffmpeg"
                 /\ pc' = "cf_check"
                 /\ UNCHANGED <<exc, exitCode, printed>>
            ELSE IF FindCatches(r)
            THEN /\ pc' = "ff_fallback"
                 /\ UNCHANGED <<found, exc, exitCode, printed>>
            ELSE /\ EscapeToMain("find_ffmpeg", r)
                 /\ UNCHANGED found
    /\ UNCHANGED <<args, platform, text, fbSeen, ffmpeg_path, inRet, outRet, success>>
    /\ UNCHANGED <<fsVars, runVars>>

\* What glob.glob(winget_pattern) and the two os.path.exists can see.
FallbackViews == [winget : BOOLEAN, pf1 : BOOLEAN, pf2 : BOOLEAN]

\* Mutant of FirstFallback: the fixed locations tried in the opposite order.
FirstFallbackReversed(seen) ==
    IF seen.winget THEN "winget"
    ELSE IF seen.pf2 THEN "pf2"
    ELSE IF seen.pf1 THEN "pf1"
    ELSE "None"

\* Lines 37-48: matches[0], else the first listed location that exists.
FirstFallback(seen) ==
    IF seen.winget THEN "winget"
    ELSE IF seen.pf1 THEN "pf1"
    ELSE IF seen.pf2 THEN "pf2"
    ELSE "None"

\* sys.platform == 'win32'
FallbackApplies(p) == p = "win32"

\* find_ffmpeg, lines 29-50.
FindFallback ==
    /\ pc = "ff_fallback"
    /\ pc' = "cf_check"
    /\ IF FallbackApplies(platform)
       THEN \E seen \in FallbackViews :
              /\ fbSeen' = seen
              /\ found' = FirstFallback(seen)
       ELSE /\ found' = "None"
            /\ UNCHANGED fbSeen
    /\ UNCHANGED <<args, exitCode, platform, text, probe1, ffmpeg_path, inRet,
                   outRet, success, exc, printed, launched>>
    /\ UNCHANGED <<fsVars, runVars>>

\* ----------------------------------------------------------- check_ffmpeg

\* check_ffmpeg, lines 55-67, and process_video's "if not ffmpeg_path".
CheckFfmpeg ==
    /\ pc = "cf_check"
    /\ IF found = "None"
       THEN /\ ffmpeg_path' = "None"
            /\ ReturnFalse({"ffmpeg_not_found"})
       ELSE /\ pc' = "cf_probe"
            /\ UNCHANGED <<ffmpeg_path, success, printed>>
    /\ UNCHANGED <<args, exitCode, platform, text, probe1, fbSeen, found, inRet,
                   outRet, exc, launched>>
    /\ UNCHANGED <<fsVars, runVars>>

\* check_ffmpeg, lines 69-84, and process_video's "if not ffmpeg_path".
CheckProbe ==
    /\ pc = "cf_probe"
    /\ \E r \in ProbeOutcomes :
         /\ launched' = launched \cup (IF ProbeStarted(r) THEN {"check_probe"} ELSE {})
         /\ IF ProbeReturned(r)
            THEN /\ ffmpeg_path' = found
                 /\ printed' = printed \cup {"ffmpeg_found"}
                 /\ pc' = "vi_exists"
                 /\ UNCHANGED <<success, exc, exitCode>>
            ELSE IF CheckCatches(r)
            THEN /\ ffmpeg_path' = "None"
                 /\ ReturnFalse({IF r = "TimeoutExpired" THEN "check_timeout"
                                                         ELSE "check_error"})
                 /\ UNCHANGED <<exc, exitCode>>
            ELSE /\ EscapeToMain("check_ffmpeg", r)
                 /\ UNCHANGED <<ffmpeg_path, success>>
    /\ UNCHANGED <<args, platform, text, probe1, fbSeen, found, inRet, outRet>>
    /\ UNCHANGED <<fsVars, runVars>>

\* ------------------------------------------------------------- filesystem

\* os.stat of a path in state st: "ok", or the OSError it raises.
StatOf(st) ==
    CASE st = "missing" -> "FileNotFoundError"
      [] st = "noaccess" -> "PermissionError"
      [] OTHER -> "ok"

\* Path.exists(): ENOENT reads as False; another OSError is raised by the
\* pathlib of some Python versions and reads as False in the others.
ExistsOutcomes(st) ==
    CASE st = "missing" -> {"False"}
      [] st = "noaccess" -> {"False", "PermissionError"}
      [] OTHER -> {"True"}

\* Path.is_file(), likewise.
IsFileOutcomes(st) ==
    CASE st \in {"missing", "dir"} -> {"False"}
      [] st = "noaccess" -> {"False", "PermissionError"}
      [] OTHER -> {"True"}

\* Whether st_size can read 0: a directory's size depends on the filesystem.
SizeCanBe(st, zero) ==
    CASE st = "empty" -> zero
      [] st = "nonempty" -> ~zero
      [] OTHER -> TRUE

\* The destination's directory, and the destination, as paths.
ParentPath == IF outParent \in {"missing", "noaccess"} THEN outParent ELSE "dir"
OutPath == IF outParent \in {"missing", "noaccess"} THEN outParent ELSE outF

\* ---------------------------------------------------- validate_input_file

\* Lines 89-101: input_path.exists().
ViExists ==
    /\ pc = "vi_exists"
    /\ \E r \in ExistsOutcomes(inF) :
         IF r = "PermissionError"
         THEN /\ EscapeToMain("validate_input_file", r)
              /\ UNCHANGED <<inRet, success>>
         ELSE IF r = "False"
         THEN /\ inRet' = "False"
              /\ ReturnFalse({"input_not_found"})
              /\ UNCHANGED <<exc, exitCode>>
         ELSE /\ pc' = "vi_isfile"
              /\ UNCHANGED <<inRet, success, printed, exc, exitCode>>
    /\ UNCHANGED <<args, platform, text, outRet, launched>>
    /\ UNCHANGED <<fsVars, locateVars, runVars>>

\* Lines 103-105: input_path.is_file().
ViIsFile ==
    /\ pc = "vi_isfile"
    /\ \E r \in IsFileOutcomes(inF) :
         IF r = "PermissionError"
         THEN /\ EscapeToMain("validate_input_file", r)
              /\ UNCHANGED <<inRet, success>>
         ELSE IF r = "False"
         THEN /\ inRet' = "False"
              /\ ReturnFalse({"not_a_file"})
              /\ UNCHANGED <<exc, exitCode>>
         ELSE /\ pc' = "vi_stat"
              /\ UNCHANGED <<inRet, success, printed, exc, exitCode>>
    /\ UNCHANGED <<args, platform, text, outRet, launched>>
    /\ UNCHANGED <<fsVars, locateVars, runVars>>

\* Mutant of ViStat: the size is read and not compared with 0.
ViStatNoSizeCheck ==
    /\ pc = "vi_stat"
    /\ IF StatOf(inF) # "ok"
       THEN /\ EscapeToMain("validate_input_file", StatOf(inF))
            /\ UNCHANGED <<inRet, success>>
       ELSE /\ pc' = "vi_stat2"
            /\ UNCHANGED <<inRet, success, printed, exc, exitCode>>
    /\ UNCHANGED <<args, platform, text, outRet, launched>>
    /\ UNCHANGED <<fsVars, locateVars, runVars>>

\* Lines 107-109: input_path.stat().st_size == 0.
ViStat ==
    /\ pc = "vi_stat"
    /\ IF StatOf(inF) # "ok"
       THEN /\ EscapeToMain("validate_input_file", StatOf(inF))
            /\ UNCHANGED <<inRet, success>>
       ELSE \E zero \in BOOLEAN :
              /\ SizeCanBe(inF, zero)
              /\ IF zero
                 THEN /\ inRet' = "False"
                      /\ ReturnFalse({"input_empty"})
                      /\ UNCHANGED <<exc, exitCode>>
                 ELSE /\ pc' = "vi_stat2"
                      /\ UNCHANGED <<inRet, success, printed, exc, exitCode>>
    /\ UNCHANGED <<args, platform, text, outRet, launched>>
    /\ UNCHANGED <<fsVars, locateVars, runVars>>

\* Lines 111-112: the second input_path.stat(), for the size it prints.
ViStat2 ==
    /\ pc = "vi_stat2"
    /\ IF StatOf(inF) # "ok"
       THEN /\ EscapeToMain("validate_input_file", StatOf(inF))
            /\ UNCHANGED inRet
       ELSE /\ inRet' = "True"
            /\ printed' = printed \cup {"input_found"}
            /\ pc' = "vo_parent"
            /\ UNCHANGED <<exc, exitCode>>
    /\ UNCHANGED <<args, platform, text, outRet, success, launched>>
    /\ UNCHANGED <<fsVars, locateVars, runVars>>

\* --------------------------------------------------- validate_output_path

\* Lines 117-123: parent_dir.exists().
VoParent ==
    /\ pc = "vo_parent"
    /\ \E r \in ExistsOutcomes(ParentPath) :
         IF r = "PermissionError"
         THEN /\ EscapeToMain("validate_output_path", r)
              /\ UNCHANGED <<outRet, success>>
         ELSE IF r = "False"
         THEN /\ outRet' = "False"
              /\ ReturnFalse({"no_out_dir"})
              /\ UNCHANGED <<exc, exitCode>>
         ELSE /\ pc' = "vo_access"
              /\ UNCHANGED <<outRet, success, printed, exc, exitCode>>
    /\ UNCHANGED <<args, platform, text, inRet, launched>>
    /\ UNCHANGED <<fsVars, locateVars, runVars>>

\* os.access(parent_dir, os.W_OK): False on any error, it never raises.
ParentWritable == outParent = "writable"

\* Lines 125-127.
VoAccess ==
    /\ pc = "vo_access"
    /\ IF ~ParentWritable
       THEN /\ outRet' = "False"
            /\ ReturnFalse({"no_write"})
       ELSE /\ pc' = "vo_exists"
            /\ UNCHANGED <<outRet, success, printed>>
    /\ UNCHANGED <<args, exitCode, platform, text, inRet, exc, launched>>
    /\ UNCHANGED <<fsVars, locateVars, runVars>>

\* Mutant of VoExists: an existing destination is an error.
VoExistsRejects ==
    /\ pc = "vo_exists"
    /\ \E r \in ExistsOutcomes(OutPath) :
         IF r = "PermissionError"
         THEN /\ EscapeToMain("validate_output_path", r)
              /\ UNCHANGED <<outRet, success>>
         ELSE IF r = "True"
         THEN /\ outRet' = "False"
              /\ ReturnFalse({"output_exists"})
              /\ UNCHANGED <<exc, exitCode>>
         ELSE /\ outRet' = "True"
              /\ printed' = printed \cup {"output_valid"}
              /\ pc' = "pv_build"
              /\ UNCHANGED <<success, exc, exitCode>>
    /\ UNCHANGED <<args, platform, text, inRet, launched>>
    /\ UNCHANGED <<fsVars, locateVars, runVars>>

\* Lines 129-134: output_path.exists(), the warning, return True.
VoExists ==
    /\ pc = "vo_exists"
    /\ \E r \in ExistsOutcomes(OutPath) :
         IF r = "PermissionError"
         THEN /\ EscapeToMain("validate_output_path", r)
              /\ UNCHANGED outRet
         ELSE /\ outRet' = "True"
              /\ printed' = printed \cup {"output_valid"} \cup
                   (IF r = "True" THEN {"overwrite_warning"} ELSE {})
              /\ pc' = "pv_build"
              /\ UNCHANGED <<exc, exitCode>>
    /\ UNCHANGED <<args, platform, text, inRet, success, launched>>
    /\ UNCHANGED <<fsVars, locateVars, runVars>>

\* ---------------------------------------------------------- process_video

\* "'\\\\\\''" : quote, three backslashes, quote, quote.
QuoteEscape == <<"'", "\\", "\\", "\\", "'", "'">>

\* "\\:" : backslash, colon.
ColonEscape == <<"\\", ":">>

\* str.replace(old, new): every non-overlapping occurrence, left to right.
RECURSIVE Replace(_, _, _)
Replace(s, old, new) ==
    IF Len(s) < Len(old) THEN s
    ELSE IF SubSeq(s, 1, Len(old)) = old
    THEN new \o Replace(SubSeq(s, Len(old) + 1, Len(s)), old, new)
    ELSE <<s[1]>> \o Replace(Tail(s), old, new)

\* Mutant of EscapeText: only the quote is escaped.
EscapeTextQuoteOnly(t) == Replace(t, <<"'">>, QuoteEscape)

\* Line 166.
EscapeText(t) == Replace(Replace(t, <<"'">>, QuoteEscape), <<":">>, ColonEscape)

\* Lines 164-192: the escaping and the argument vector.
PvBuild ==
    /\ pc = "pv_build"
    /\ escaped_text' = EscapeText(text)
    /\ command' = [tool |-> ffmpeg_path,
                   args |-> <<"-i", "input", "-vf", "filter", "-c:a", "copy",
                              "-y", "output">>,
                   drawtext |-> <<"'">> \o EscapeText(text) \o <<"'">>]
    /\ printed' = printed \cup {"processing"}
    /\ pc' = "pv_popen"
    /\ UNCHANGED <<args, exitCode, platform, text, inRet, outRet, success, exc,
                   launched, all_output, last_progress, returncode, error_lines,
                   childWrote, destChecked>>
    /\ UNCHANGED <<fsVars, locateVars>>

\* How subprocess.Popen(command) can end.
PopenOutcomes == {"started", "FileNotFoundError", "PermissionError"}

\* Lines 194-207: Popen, inside process_video's try block.
PvPopen ==
    /\ pc = "pv_popen"
    /\ \E r \in PopenOutcomes :
         IF r = "started"
         THEN /\ launched' = launched \cup {"transcode"}
              /\ pc' = "pv_read"
              /\ UNCHANGED <<success, printed, exc, exitCode>>
         ELSE IF ProcessCatches(r)
         THEN /\ ReturnFalse({"error_during_processing"})
              /\ UNCHANGED <<launched, exc, exitCode>>
         ELSE /\ EscapeToMain("process_video", r)
              /\ UNCHANGED <<launched, success>>
    /\ UNCHANGED <<args, platform, text, inRet, outRet>>
    /\ UNCHANGED <<fsVars, locateVars, runVars>>

\* Lines 209-215: one iteration of "for line in process.stdout".
ReadLine ==
    /\ pc = "pv_read"
    /\ Len(all_output) < MaxLines
    /\ LET line == ChildLine(Len(all_output) + 1)
       IN  /\ all_output' = Append(all_output, line)
           /\ last_progress' = IF line.progress THEN line.id ELSE last_progress
    /\ UNCHANGED <<pc, args, exitCode, platform, text, inRet, outRet, success, exc,
                   printed, launched, escaped_text, command, returncode,
                   error_lines, childWrote, destChecked>>
    /\ UNCHANGED <<fsVars, locateVars>>

\* Line 209: the child closed its output, the loop ends.
ReadEof ==
    /\ pc = "pv_read"
    /\ pc' = "pv_wait"
    /\ UNCHANGED <<args, exitCode, platform, text, inRet, outRet, success, exc,
                   printed, launched>>
    /\ UNCHANGED <<fsVars, locateVars, runVars>>

\* Line 209: reading or decoding the child's output fails.
ReadError ==
    /\ pc = "pv_read"
    /\ IF ProcessCatches("UnicodeDecodeError")
       THEN /\ ReturnFalse({"error_during_processing"})
            /\ UNCHANGED <<exc, exitCode>>
       ELSE /\ EscapeToMain("process_video", "UnicodeDecodeError")
            /\ UNCHANGED success
    /\ UNCHANGED <<args, platform, text, inRet, outRet, launched>>
    /\ UNCHANGED <<fsVars, locateVars, runVars>>

\* The exit statuses of the child: 0 and one other.
ExitStatuses == {0, 1}

\* Line 217: process.wait().
PvWait ==
    /\ pc = "pv_wait"
    /\ \E rc \in ExitStatuses : returncode' = rc
    /\ pc' = "pv_rc"
    /\ UNCHANGED <<args, exitCode, platform, text, inRet, outRet, success, exc,
                   printed, launched, escaped_text, command, all_output,
                   last_progress, error_lines, childWrote, destChecked>>
    /\ UNCHANGED <<fsVars, locateVars>>

\* line.rstrip()
Rstrip(line) == [line EXCEPT !.trail = FALSE]

\* Mutant of ErrorLines: all_output[:30], the first lines instead of the last.
ErrorLinesHead(out) ==
    IF Len(out) > TailLines THEN SubSeq(out, 1, TailLines) ELSE out

\* Line 225: all_output[-30:] if len(all_output) > 30 else all_output
ErrorLines(out) ==
    IF Len(out) > TailLines
    THEN SubSeq(out, Len(out) - TailLines + 1, Len(out))
    ELSE out

\* Lines 219-229: the child failed.
PvCheckRc ==
    /\ pc = "pv_rc"
    /\ IF returncode # 0
       THEN /\ error_lines' = [i \in 1..Len(ErrorLines(all_output)) |->
                                 Rstrip(ErrorLines(all_output)[i])]
            /\ ReturnFalse({"ffmpeg_failed"})
       ELSE /\ pc' = "pv_exists"
            /\ UNCHANGED <<error_lines, success, printed>>
    /\ UNCHANGED <<args, exitCode, platform, text, inRet, outRet, exc, launched,
                   escaped_text, command, all_output, last_progress, returncode,
                   childWrote, destChecked>>
    /\ UNCHANGED <<fsVars, locateVars>>

\* os.path.exists(output_file): False on any OSError, it never raises.
OutputExists == StatOf(OutPath) = "ok"

\* Lines 231-234.
PvExists ==
    /\ pc = "pv_exists"
    /\ destChecked' = TRUE
    /\ IF ~OutputExists
       THEN ReturnFalse({"not_created"})
       ELSE /\ pc' = "pv_getsize"
            /\ UNCHANGED <<success, printed>>
    /\ UNCHANGED <<args, exitCode, platform, text, inRet, outRet, exc, launched,
                   escaped_text, command, all_output, last_progress, returncode,
                   error_lines, childWrote>>
    /\ UNCHANGED <<fsVars, locateVars>>

\* Mutant of PvGetsize: the size is read and not compared with 0.
PvGetsizeNoSizeCheck ==
    /\ pc = "pv_getsize"
    /\ IF StatOf(OutPath) # "ok"
       THEN IF ProcessCatches(StatOf(OutPath))
            THEN /\ ReturnFalse({"error_during_processing"})
                 /\ UNCHANGED <<exc, exitCode>>
            ELSE /\ EscapeToMain("process_video", StatOf(OutPath))
                 /\ UNCHANGED success
       ELSE /\ success' = "True"
            /\ printed' = printed \cup {"complete"}
            /\ pc' = "main_report"
            /\ UNCHANGED <<exc, exitCode>>
    /\ UNCHANGED <<args, platform, text, inRet, outRet, launched>>
    /\ UNCHANGED <<fsVars, locateVars, runVars>>

\* Lines 236-247: os.path.getsize(output_file), inside the try block.
PvGetsize ==
    /\ pc = "pv_getsize"
    /\ IF StatOf(OutPath) # "ok"
       THEN IF ProcessCatches(StatOf(OutPath))
            THEN /\ ReturnFalse({"error_during_processing"})
                 /\ UNCHANGED <<exc, exitCode>>
            ELSE /\ EscapeToMain("process_video", StatOf(OutPath))
                 /\ UNCHANGED success
       ELSE \E zero \in BOOLEAN :
              /\ SizeCanBe(OutPath, zero)
              /\ IF zero
                 THEN ReturnFalse({"output_empty"})
                 ELSE /\ success' = "True"
                      /\ printed' = printed \cup {"complete"}
                      /\ pc' = "main_report"
              /\ UNCHANGED <<exc, exitCode>>
    /\ UNCHANGED <<args, platform, text, inRet, outRet, launched>>
    /\ UNCHANGED <<fsVars, locateVars, runVars>>

\* ------------------------------------------------------------ environment

\* Positions inside main's try block (lines 302-316).
TryPcs == {"ff_probe", "ff_fallback", "cf_check", "cf_probe", "vi_exists",
           "vi_isfile", "vi_stat", "vi_stat2", "vo_parent", "vo_access",
           "vo_exists", "pv_build", "pv_popen", "pv_read", "pv_wait", "pv_rc",
           "pv_exists", "pv_getsize", "main_report"}

\* Positions inside process_video's try block (lines 194-247).
ProcessTryPcs == {"pv_popen", "pv_read", "pv_wait", "pv_rc", "pv_exists",
                  "pv_getsize"}

\* Whether a try block between position p and main's handles e.
InnerCatches(p, e) ==
    \/ p = "ff_probe" /\ FindCatches(e)
    \/ p = "cf_probe" /\ CheckCatches(e)
    \/ p \in ProcessTryPcs /\ ProcessCatches(e)

\* The user presses the interrupt key while main's try block runs.
Interrupt ==
    /\ pc \in TryPcs
    /\ ~InnerCatches(pc, "KeyboardInterrupt")
    /\ EscapeToMain(FuncOf(pc), "KeyboardInterrupt")
    /\ UNCHANGED <<args, platform, text, inRet, outRet, success, launched>>
    /\ UNCHANGED <<fsVars, locateVars, runVars>>

\* The transcoding child, while it runs, writes the destination.
ChildWrite ==
    /\ pc \in {"pv_read", "pv_wait"}
    /\ outParent = "writable"
    /\ \E st \in {"empty", "nonempty"} : outF' = st
    /\ childWrote' = TRUE
    /\ UNCHANGED <<pc, args, exitCode, platform, inF, outParent, text, inRet,
                   outRet, success, exc, printed, launched, escaped_text,
                   command, all_output, last_progress, returncode, error_lines,
                   destChecked>>
    /\ UNCHANGED locateVars

\* Positions whose next statement looks at the input path.
InputPcs == {"vi_exists", "vi_isfile", "vi_stat", "vi_stat2"}

\* Positions whose next statement looks at the destination or its
\* directory, or starts the child that writes there.
OutputPcs == {"vo_parent", "vo_access", "vo_exists", "pv_popen", "pv_exists",
              "pv_getsize"}

\* Another process changes the input path between two steps of the program.
EnvInput ==
    /\ pc \in InputPcs
    /\ \E st \in InStates \ {inF} : inF' = st
    /\ UNCHANGED <<pc, args, exitCode, platform, outParent, outF, text, inRet,
                   outRet, success, exc, printed, launched>>
    /\ UNCHANGED <<locateVars, runVars>>

\* Another process changes the destination or its directory.
EnvOutput ==
    /\ pc \in OutputPcs
    /\ \E p \in ParentStates, st \in OutStates :
         /\ FsOk(p, st)
         /\ <<p, st>> # <<outParent, outF>>
         /\ outParent' = p
         /\ outF' = st
    /\ UNCHANGED <<pc, args, exitCode, platform, inF, text, inRet, outRet,
                   success, exc, printed, launched>>
    /\ UNCHANGED <<locateVars, runVars>>

\* ---------------------------------------------------------- specification

Next ==
    \/ ParseArgs
    \/ FindProbe
    \/ FindFallback
    \/ CheckFfmpeg
    \/ CheckProbe
    \/ ViExists
    \/ ViIsFile
    \/ ViStat
    \/ ViStat2
    \/ VoParent
    \/ VoAccess
    \/ VoExists
    \/ PvBuild
    \/ PvPopen
    \/ ReadLine
    \/ ReadEof
    \/ ReadError
    \/ PvWait
    \/ PvCheckRc
    \/ PvExists
    \/ PvGetsize
    \/ MainReport
    \/ Interrupt
    \/ ChildWrite
    \/ EnvInput
    \/ EnvOutput

Spec == Init /\ [][Next]_vars

\* The escaping alone: the state process_video is in when it reaches line
\* 164 after a clean validation, for every display text up to MaxTextLen.
InitEscape ==
    /\ pc = "pv_build"
    /\ args = "ok"
    /\ exitCode = -1
    /\ platform \in Platforms
    /\ inF = "nonempty"
    /\ outParent = "writable"
    /\ outF = "missing"
    /\ text \in Texts
    /\ probe1 = "exit0"
    /\ fbSeen = NoFallback
    /\ found = "ffmpeg"
    /\ ffmpeg_path = "ffmpeg"
    /\ inRet = "True"
    /\ outRet = "True"
    /\ escaped_text = <<>>
    /\ command = <<>>
    /\ all_output = <<>>
    /\ last_progress = 0
    /\ returncode = -1
    /\ error_lines = <<>>
    /\ success = "unset"
    /\ exc = NoExc
    /\ printed = {"started", "ffmpeg_found", "input_found", "output_valid"}
    /\ launched = {"find_probe", "check_probe"}
    /\ childWrote = FALSE
    /\ destChecked = FALSE

NextEscape == PvBuild

SpecEscape == InitEscape /\ [][NextEscape]_vars

\* ----------------------------------------------------------------- claims

\* A step of the program itself that is not cut short by the interrupt key.
ProgramStep == pc' # pc /\ exc'.kind # "KeyboardInterrupt"

\* An exception other than the user's interrupt left function f.
Raised(f) == exc.from = f /\ exc.kind # "KeyboardInterrupt"

Min(a, b) == IF a < b THEN a ELSE b

\* C1: a run that got past argument parsing never ends in an uncaught
\* exception and exits with 0 or 1: with 0 exactly when process_video
\* returned True and nothing interrupted the run before sys.exit, with 1 after
\* a False return, an interrupt or an exception.  A run whose command line
\* was refused exits with the parser's status, non-zero for a malformed one,
\* before the tool is looked for, a path validated or a child started.
MainExitStatus ==
    /\ pc # "crashed"
    /\ pc = "exited" =>
         IF args = "ok"
         THEN /\ exitCode \in {0, 1}
              /\ exitCode = 0 <=> (success = "True" /\ exc = NoExc)
              /\ (success = "False" \/ exc # NoExc) => exitCode = 1
         ELSE /\ args \in {"error", "help"}
              /\ args = "error" => exitCode = ParserErrorCode /\ exitCode \notin {0, 1}
              /\ launched = {}
              /\ found = "unset" /\ ffmpeg_path = "unset"
              /\ inRet = "unset" /\ outRet = "unset"
              /\ success = "unset" /\ exc = NoExc

\* C1 witness: a parsed run that ended with status 0 after process_video
\* returned True.
MainExitStatusWitness ==
    /\ pc = "exited" /\ args = "ok" /\ exitCode = 0
    /\ success = "True" /\ "transcode" \in launched

\* C2 as claimed: once a validation has returned False the run exits 1 and
\* no child process at all was launched during it.
NoChildAfterFailedValidation ==
    (pc = "exited" /\ (inRet = "False" \/ outRet = "False"))
        => (exitCode = 1 /\ launched = {})

\* validate_input_file is about to see a missing path, a path that is not a
\* regular file, or a file of size 0.
InputSeenInvalid ==
    \/ pc = "vi_exists" /\ inF = "missing"
    \/ pc = "vi_isfile" /\ inF \in {"missing", "dir"}
    \/ pc = "vi_stat" /\ inF = "empty"

\* validate_output_path is about to see that the parent directory is missing.
OutputSeenInvalid == pc = "vo_parent" /\ outParent = "missing"

\* C2 as amended: a validation that sees an invalid input, or a missing
\* parent directory, returns False; after a False validation the run exits 1
\* and the transcoding child is never launched.  The version probe of
\* check_ffmpeg has been launched before either validation runs.
NoTranscodeAfterFailedValidation ==
    /\ [][(InputSeenInvalid /\ ProgramStep)
            => (inRet' = "False" /\ success' = "False")]_vars
    /\ [][(OutputSeenInvalid /\ ProgramStep)
            => (outRet' = "False" /\ success' = "False")]_vars
    /\ []((inRet = "False" \/ outRet = "False") =>
            /\ "transcode" \notin launched
            /\ success = "False"
            /\ pc \in {"main_report", "exited"}
            /\ pc = "exited" => exitCode = 1)
    /\ []((inRet # "unset" \/ outRet # "unset") => "check_probe" \in launched)

\* C2 witness: an empty input was refused and the run exited 1 with the
\* probes as its only children.
NoTranscodeWitness ==
    /\ pc = "exited" /\ inRet = "False" /\ inF = "empty"
    /\ "input_empty" \in printed /\ exitCode = 1
    /\ launched = {"find_probe", "check_probe"}

\* C3: when the child exited 0 and the destination is missing or of size 0
\* as process_video checks it, process_video does not return True and the
\* run does not exit 0; process_video returns True only from the size check,
\* with a child that exited 0 and a destination that is there and not empty.
SilentFailureIsFailure ==
    /\ [][(pc = "pv_exists" /\ returncode = 0 /\ ~OutputExists /\ ProgramStep)
            => success' = "False"]_vars
    /\ [][(pc = "pv_getsize" /\ returncode = 0 /\ ProgramStep
             /\ (~OutputExists \/ outF = "empty"))
            => success' = "False"]_vars
    /\ [][(success' = "True" /\ success # "True")
            => (pc = "pv_getsize" /\ returncode = 0 /\ OutputExists
                  /\ outF = "nonempty" /\ "transcode" \in launched)]_vars
    /\ [](success = "False" => exitCode # 0)

\* C3 witness: the child exited 0, left an empty destination, and the run
\* exited 1.
SilentFailureWitness ==
    /\ pc = "exited" /\ returncode = 0 /\ success = "False" /\ exitCode = 1
    /\ childWrote /\ outF = "empty" /\ "output_empty" \in printed

\* C4: after a child that exited with a non-zero status process_video
\* returns False without having looked at the destination, and the lines it
\* printed are the last min(30, n) of the n lines read, in their order, each
\* with its trailing blanks stripped.
FailureShowsLastLines ==
    /\ returncode > 0 => (~destChecked /\ success # "True")
    /\ (returncode > 0 /\ success # "unset") =>
         LET n == Len(all_output)
             k == Min(TailLines, n)
         IN  /\ success = "False"
             /\ Len(error_lines) = k
             /\ \A i \in 1..k :
                  /\ error_lines[i].id = all_output[n - k + i].id
                  /\ error_lines[i] = Rstrip(all_output[n - k + i])

\* C4 witness: a failed child that wrote more lines than are shown.
FailureShowsLastLinesWitness ==
    /\ returncode = 1 /\ success = "False"
    /\ Len(all_output) = TailLines + 2 /\ Len(error_lines) = TailLines
    /\ error_lines[1].id = 3

\* What one character of the display text becomes.
EscapedChar(c) ==
    IF c = "'" THEN QuoteEscape ELSE IF c = ":" THEN ColonEscape ELSE <<c>>

RECURSIVE EscapedCharwise(_)
EscapedCharwise(t) ==
    IF t = <<>> THEN <<>> ELSE EscapedChar(Head(t)) \o EscapedCharwise(Tail(t))

\* C5: the text put into the filter is the display text with every quote
\* replaced by the quote escape, every colon by backslash-colon and every
\* other character kept, in order; the quote escape holds no colon, so the
\* second replacement touches nothing the first one wrote.
EscapingIsCharwise ==
    /\ \A i \in 1..Len(QuoteEscape) : QuoteEscape[i] # ":"
    /\ pc = "pv_popen" =>
         /\ escaped_text = EscapedCharwise(text)
         /\ command.drawtext = <<"'">> \o EscapedCharwise(text) \o <<"'">>

\* C5 witness: a text with a quote, a colon and another character was
\* escaped.
EscapingWitness ==
    /\ pc = "pv_popen" /\ text = <<"'", ":", "a">>
    /\ escaped_text = <<"'", "\\", "\\", "\\", "'", "'", "\\", ":", "a">>

\* C6 as claimed: validate_output_path never returns False for a destination
\* that exists, whatever the state of its directory.
ExistingOutputNeverFails ==
    (pc = "main_report" /\ outRet = "False") => ~OutputExists

\* C6 as amended: once the parent directory was found present and writable,
\* a destination that exists only adds the warning and validate_output_path
\* returns True; with a destination that exists it returns False only for a
\* parent directory that is not writable.
ExistingOutputOnlyWarns ==
    /\ [][(pc = "vo_exists" /\ OutputExists /\ ProgramStep)
            => /\ outRet' = "True"
               /\ printed' = printed \cup {"overwrite_warning", "output_valid"}
               /\ pc' = "pv_build"]_vars
    /\ []((pc = "main_report" /\ outRet = "False" /\ OutputExists)
            => (~ParentWritable /\ "no_write" \in printed))
    /\ []("overwrite_warning" \in printed => outRet = "True")

\* C6 witness: validation passed with the warning for a leftover destination.
ExistingOutputWitness ==
    /\ pc = "pv_build" /\ outRet = "True" /\ outF = "nonempty"
    /\ "overwrite_warning" \in printed

\* C7: no exception leaves find_ffmpeg or check_ffmpeg; when the probe of the
\* bare name could not launch the tool or timed out and no fallback location
\* exists, both return None and the run exits 1 after the diagnostic.
LocatorNeverRaises ==
    /\ ~Raised("find_ffmpeg")
    /\ ~Raised("check_ffmpeg")
    /\ (/\ pc = "exited"
        /\ probe1 \in {"FileNotFoundError", "PermissionError", "TimeoutExpired"}
        /\ FirstFallback(fbSeen) = "None"
        /\ exc.kind # "KeyboardInterrupt")
         => /\ found = "None" /\ ffmpeg_path = "None"
            /\ exitCode = 1 /\ "ffmpeg_not_found" \in printed

\* C8: no exception leaves validate_input_file or validate_output_path,
\* whatever other processes do to the files between two of their system
\* calls.
ValidatorsNeverRaise ==
    /\ ~Raised("validate_input_file")
    /\ ~Raised("validate_output_path")

\* C9: a child that exited 0 without writing the destination during the run
\* makes process_video return False, whatever was at the destination before.
UnwrittenOutputIsFailure ==
    (returncode = 0 /\ ~childWrote /\ success # "unset") => success = "False"

=============================================================================
